---- MODULE Spec2Model ----
(***************************************************************************)
(* Model of the waiting-room core API handlers                             *)
(*   set_max_queue_position_expired.lambda_handler  (expiry scan and       *)
(*   indirect crediting of the serving counter) and                        *)
(*   reset_initial_state.lambda_handler             (full reset).          *)
(* The Redis counters, the two DynamoDB tables the scan reads, the table   *)
(* life cycle the reset drives and the clock are the state. Both handlers  *)
(* run call by call: an action is one call of a handler on a store, or    *)
(* one reading of the clock, with the statements that follow it up to the  *)
(* next call.                                                              *)
(* Spec, SpecReset and SpecIncr schedule the invocations one after the     *)
(* other; SpecOverlap interleaves two scans, SpecRace a scan and a reset.  *)
(***************************************************************************)
EXTENDS Integers, Sequences, FiniteSets, TLC

\* ---------------------------------------------------------------- bounds
MaxTime == 1          \* the clock runs over 0..MaxTime
MaxPosition == 2      \* queue positions handed out, and the serving counter
                      \* the public increment API may reach
MaxInvoked == 2       \* invocations of the scan begun once two are on record
MaxQueue == MaxPosition
MaxServing == MaxPosition
\* the values QUEUE_POSITION_EXPIRY_PERIOD is configured with: no grace
\* period, and one the clock can reach
ExpiryPeriods == {0, MaxTime}

\* ------------------------------------------------- names of the counters
RESET_IN_PROGRESS == "reset_in_progress"
SERVING_COUNTER == "serving_counter"
QUEUE_COUNTER == "queue_counter"
TOKEN_COUNTER == "token_counter"
COMPLETED_SESSION_COUNTER == "completed_session_counter"
ABANDONED_SESSION_COUNTER == "abandoned_session_counter"
MAX_QUEUE_POSITION_EXPIRED == "max_queue_position_expired"

CounterKeys ==
    {SERVING_COUNTER, QUEUE_COUNTER, TOKEN_COUNTER, COMPLETED_SESSION_COUNTER,
     ABANDONED_SESSION_COUNTER, MAX_QUEUE_POSITION_EXPIRED}

RedisKeys == CounterKeys \cup {RESET_IN_PROGRESS}

\* ------------------------------------------------------ names of tables
TOKEN_TABLE == "token_table"
QUEUE_POSITION_ENTRYTIME_TABLE == "queue_position_entry_time_table"
SERVING_COUNTER_ISSUEDAT_TABLE == "serving_counter_issued_at_table"

TableNames == {TOKEN_TABLE, QUEUE_POSITION_ENTRYTIME_TABLE, SERVING_COUNTER_ISSUEDAT_TABLE}

\* the configured event and the identifiers a caller may send
EVENT_ID == "event"
ClientEventIds == {"event", "other"}

VARIABLES
    rc,          \* Redis: key -> integer
    ddb,         \* DynamoDB: table name -> [exists, pitr, items]; items is a
                 \* function from the table's lookup key to the item
    now,         \* the clock, int(time())
    environ,     \* os.environ of the scan: expiry period and crediting switch
    passes,      \* the invocations of the scan: invocation -> the store call
                 \* it makes next, its local variables, and what it has done
    resetting    \* the invocation of the reset: the statement it executes
                 \* next, and what it has done

vars == <<rc, ddb, now, environ, passes, resetting>>

\* ----------------------------------------------------------- helpers
Max2(a, b) == IF a >= b THEN a ELSE b

MinOf(S) == CHOOSE x \in S : \A y \in S : x <= y

EmptyItems == [k \in {} |-> 0]

\* DynamoDB put_item: the item with this key is created or replaced
put_item(items, key, item) ==
    [k \in (DOMAIN items) \cup {key} |-> IF k = key THEN item ELSE items[k]]

RECURSIVE Ascending(_)
Ascending(S) ==
    IF S = {} THEN <<>> ELSE <<MinOf(S)>> \o Ascending(S \ {MinOf(S)})

\* (mutant) the query reads the range key backwards
query_serving_counter_gt_descending(items, w) ==
    LET keys == Ascending({k \in DOMAIN items : k > w})
    IN  [i \in 1..Len(keys) |->
            [serving_counter |-> keys[Len(keys) + 1 - i],
             issue_time |-> items[keys[Len(keys) + 1 - i]].issue_time,
             queue_positions_served |->
                 items[keys[Len(keys) + 1 - i]].queue_positions_served]]

\* query(KeyConditionExpression = event_id = EVENT_ID & serving_counter > w):
\* the items in ascending order of the range key
query_serving_counter_gt(items, w) ==
    LET keys == Ascending({k \in DOMAIN items : k > w})
    IN  [i \in 1..Len(keys) |->
            [serving_counter |-> keys[i],
             issue_time |-> items[keys[i]].issue_time,
             queue_positions_served |-> items[keys[i]].queue_positions_served]]

\* the part of the stores a handler can write
Stores(r, d) == [rc |-> r, ddb |-> d]

NoStores == [rc |-> EmptyItems, ddb |-> EmptyItems]

\* the n-th reading of a clock whose readings are the sequence time; the
\* clock stands at its last reading for the readings after those
int_time(time, n) == time[IF n <= Len(time) THEN n ELSE Len(time)]

\* ------------------------------------------ set_max_queue_position_expired
\* (mutant) the handler does not look at reset_in_progress
skip_execution_never(reset_in_progress) == FALSE

\* int(rc.get(RESET_IN_PROGRESS)) != 0
skip_execution(reset_in_progress) == reset_in_progress # 0

\* (mutant) the issue time of the issuance is left out of queue_time
queue_time_of_entry_only(queue_item_entry_time, serving_counter_item_issue_time) ==
    queue_item_entry_time

\* (mutant) the earlier of the two times is taken
queue_time_of_earlier(queue_item_entry_time, serving_counter_item_issue_time) ==
    IF queue_item_entry_time <= serving_counter_item_issue_time
    THEN queue_item_entry_time
    ELSE serving_counter_item_issue_time

\* queue_time of a candidate
queue_time_of(queue_item_entry_time, serving_counter_item_issue_time) ==
    Max2(queue_item_entry_time, serving_counter_item_issue_time)

\* (mutant) the crediting switch is not looked at
credit_enabled_always(env) == TRUE

\* INCR_SVC_ON_QUEUE_POS_EXPIRY == 'true'
credit_enabled(env) == env.INCR_SVC_ON_QUEUE_POS_EXPIRY = "true"

\* increment_by of incr_serving_counter
increment_by_of(queue_positions_served, serving_counter_item_position, previous_serving_counter_position) ==
    (serving_counter_item_position - previous_serving_counter_position)
        - queue_positions_served

\* (mutant) only a negative increment is skipped
incr_skipped_negative_only(increment_by) == increment_by < 0

\* the guard of incr_serving_counter: the increment is not applied
incr_skipped(increment_by) == increment_by <= 0

\* (mutant) the notification reports the previous position the function was
\* called with
event_detail_reports_argument(cur_serving, increment_by, previous_serving_counter_position) ==
    [previous_serving_counter_position |-> previous_serving_counter_position,
     increment_by |-> increment_by,
     current_serving_counter_position |-> cur_serving]

\* Detail of the automatic_serving_counter_incr event
event_detail(cur_serving, increment_by, previous_serving_counter_position) ==
    [previous_serving_counter_position |-> cur_serving - increment_by,
     increment_by |-> increment_by,
     current_serving_counter_position |-> cur_serving]

\* incr_serving_counter run without interruption: st is [rc, items, events],
\* items being the items of the serving-counter issuance table, which is
\* there; t is the reading int(time()) of the item it builds
incr_serving_counter(st, t, queue_positions_served, serving_counter_item_position, previous_serving_counter_position) ==
    LET increment_by ==
            increment_by_of(queue_positions_served, serving_counter_item_position,
                            previous_serving_counter_position)
        cur_serving == st.rc[SERVING_COUNTER] + increment_by
        item == [issue_time |-> t, queue_positions_served |-> 0]
    IN  IF incr_skipped(increment_by)
        THEN st
        ELSE [rc |-> [st.rc EXCEPT ![SERVING_COUNTER] = cur_serving],
              items |-> put_item(st.items, cur_serving, item),
              events |-> Append(st.events,
                                event_detail(cur_serving, increment_by,
                                             previous_serving_counter_position))]

\* One iteration of the for loop over serving_counter_items, run without
\* interruption: [break, raised, lp]. lp is [st, previous, expired]: st as
\* above, previous is previous_serving_counter_position, expired the
\* positions the loop made the watermark. queue_position_table is the
\* queue-position table, whose query raises when the table is not there.
\* time is the clock: its first reading is current_time, and each call of
\* incr_serving_counter that builds an item reads it once more. rc.set
\* without nx or xx answers True, so the branch for a failed set is not taken.
scan_item(serving_counter_item, lp, queue_position_table, time, env) ==
    LET serving_counter_item_position == serving_counter_item.serving_counter
        serving_counter_item_issue_time == serving_counter_item.issue_time
        current_time == int_time(time, 1)
    IN  IF ~queue_position_table.exists
        THEN [break |-> TRUE, raised |-> TRUE, lp |-> lp]
        ELSE IF serving_counter_item_position \notin DOMAIN queue_position_table.items
        THEN [break |-> TRUE, raised |-> FALSE, lp |-> lp]
        ELSE
          LET queue_item_entry_time ==
                  queue_position_table.items[serving_counter_item_position].entry_time
              queue_time == queue_time_of(queue_item_entry_time,
                                          serving_counter_item_issue_time)
          IN  IF current_time - queue_time < env.QUEUE_POSITION_EXPIRY_PERIOD
              THEN [break |-> TRUE, raised |-> FALSE, lp |-> lp]
              ELSE
                LET st1 == [lp.st EXCEPT !.rc[MAX_QUEUE_POSITION_EXPIRED] =
                                             serving_counter_item_position]
                    st2 == IF credit_enabled(env)
                           THEN incr_serving_counter(
                                    st1, int_time(time, 2 + Len(st1.events)),
                                    serving_counter_item.queue_positions_served,
                                    serving_counter_item_position, lp.previous)
                           ELSE st1
                IN  [break |-> FALSE,
                     raised |-> FALSE,
                     lp |-> [st |-> st2,
                             previous |-> serving_counter_item_position,
                             expired |-> Append(lp.expired,
                                                serving_counter_item_position)]]

\* the for loop over serving_counter_items, from item i on: [raised, lp]
RECURSIVE scan_loop(_, _, _, _, _, _)
scan_loop(serving_counter_items, i, lp, queue_position_table, time, env) ==
    IF i > Len(serving_counter_items)
    THEN [raised |-> FALSE, lp |-> lp]
    ELSE CHOOSE res \in
             {IF step.break
              THEN [raised |-> step.raised, lp |-> step.lp]
              ELSE scan_loop(serving_counter_items, i + 1, step.lp,
                             queue_position_table, time, env) :
                  step \in {scan_item(serving_counter_items[i], lp,
                                      queue_position_table, time, env)}} : TRUE

\* lambda_handler of set_max_queue_position_expired run without interruption
\* on the stores (r, d) with the clock readings time: the loop record it ends
\* with, whether it skipped for a reset, and whether a query raised because
\* its table is not there (the handler has no try)
scan_handler(r, d, time, env) ==
    LET start == [st |-> [rc |-> r,
                          items |-> d[SERVING_COUNTER_ISSUEDAT_TABLE].items,
                          events |-> <<>>],
                  previous |-> r[MAX_QUEUE_POSITION_EXPIRED],
                  expired |-> <<>>]
    IN  IF skip_execution(r[RESET_IN_PROGRESS])
        THEN [skipped |-> TRUE, raised |-> FALSE, lp |-> start]
        ELSE IF ~d[SERVING_COUNTER_ISSUEDAT_TABLE].exists
        THEN [skipped |-> FALSE, raised |-> TRUE, lp |-> start]
        ELSE CHOOSE res \in
                 {[skipped |-> FALSE, raised |-> l.raised, lp |-> l.lp] :
                      l \in {scan_loop(
                                 query_serving_counter_gt(
                                     d[SERVING_COUNTER_ISSUEDAT_TABLE].items,
                                     r[MAX_QUEUE_POSITION_EXPIRED]),
                                 1, start, d[QUEUE_POSITION_ENTRYTIME_TABLE],
                                 time, env)}} : TRUE

\* ----------------------------- the scan, store call by store call
\* The invocations of set_max_queue_position_expired.lambda_handler that may
\* be in flight together
Invocations == {1, 2}

\* no invocation ran to its end just before this one
NoPass == [complete |-> FALSE, current_time |-> 0, credited |-> FALSE]

\* the function was not called on its own
NoCall == [called |-> FALSE, queue_positions_served |-> 0, position |-> 0, previous |-> 0]

\* An invocation that has not begun. pc is the call it makes next, of a
\* store or of the clock; current_time .. issue_time are the local variables
\* of the handler and of incr_serving_counter, issue_time that of the item.
\* The other fields record what the invocation found and did: before the stores when it began, time its clock readings,
\* expired the positions it set the watermark to, credited the positions
\* incr_serving_counter went on to credit, events the notifications it
\* emitted, other_at_start where the other invocation was when it began,
\* nth its place among the invocations begun since the other one first began,
\* after_pass the invocation it followed with no write of another actor in
\* between, and direct the arguments when incr_serving_counter is called on
\* its own.
IdlePass ==
    [pc |-> "idle", current_time |-> 0, max_queue_position_expired |-> 0,
     serving_counter_items |-> <<>>, i |-> 0, previous |-> 0,
     increment_by |-> 0, cur_serving |-> 0, issue_time |-> 0,
     before |-> NoStores, time |-> <<>>, expired |-> <<>>, credited |-> <<>>,
     events |-> <<>>,
     other_at_start |-> "idle", nth |-> 0, after_pass |-> NoPass, direct |-> NoCall]

Running(q) == q.pc \notin {"idle", "skipped", "done", "aborted"}

\* the invocation has ended: returned after the loop (done), returned for a
\* reset (skipped), or left by an exception of a store call (aborted)
Finished(q, pc) ==
    [q EXCEPT !.pc = pc, !.serving_counter_items = <<>>, !.i = 0, !.previous = 0,
              !.increment_by = 0, !.cur_serving = 0, !.issue_time = 0]

\* what is kept of an invocation once another actor writes to a store
Forget(q) == IF Running(q) THEN q ELSE IdlePass

Other(p) == CHOOSE o \in Invocations : o # p

OtherPhase(p) == IF Running(passes[Other(p)]) THEN "running" ELSE passes[Other(p)].pc

\* the place of an invocation that begins: the first while the other
\* invocation has not begun, and the next after the two on record otherwise
NextPlace(p) ==
    IF passes[Other(p)].pc = "idle"
    THEN 1
    ELSE 1 + (IF passes[p].nth >= passes[Other(p)].nth
              THEN passes[p].nth ELSE passes[Other(p)].nth)

\* (mutant) the loop ends after the first item it expired
NextItem_ends(q) == Finished(q, "done")

\* (mutant) previous_serving_counter_position stays the starting watermark
NextItem_keeps_previous(q) ==
    IF q.i + 1 > Len(q.serving_counter_items)
    THEN Finished(q, "done")
    ELSE [q EXCEPT !.pc = "query_queue_position",
                   !.i = q.i + 1,
                   !.increment_by = 0,
                   !.cur_serving = 0,
                   !.issue_time = 0]

\* the end of the loop body (line 105) and the head of the for loop
NextItem(q) ==
    IF q.i + 1 > Len(q.serving_counter_items)
    THEN Finished(q, "done")
    ELSE [q EXCEPT !.pc = "query_queue_position",
                   !.i = q.i + 1,
                   !.previous = q.serving_counter_items[q.i].serving_counter,
                   !.increment_by = 0,
                   !.cur_serving = 0,
                   !.issue_time = 0]

\* (mutant) the loop goes on to the next item where the code breaks
break_loop_continues(q) ==
    IF q.i + 1 > Len(q.serving_counter_items)
    THEN Finished(q, "done")
    ELSE [q EXCEPT !.i = q.i + 1]

\* break: the handler returns
break_loop(q) == Finished(q, "done")

\* incr_serving_counter up to its first store call: the increment and the
\* guard, which returns to the loop
incr_call(q, queue_positions_served, serving_counter_item_position, previous_serving_counter_position) ==
    LET increment_by ==
            increment_by_of(queue_positions_served, serving_counter_item_position,
                            previous_serving_counter_position)
    IN  IF incr_skipped(increment_by)
        THEN NextItem(q)
        ELSE [q EXCEPT !.pc = "rc_incrby",
                       !.increment_by = increment_by,
                       !.credited = Append(@, serving_counter_item_position)]

\* rc.get(RESET_IN_PROGRESS) of an invocation that begins
get_reset_in_progress(p) ==
    /\ ~Running(passes[p])
    /\ passes' = [passes EXCEPT ![p] =
                      [IdlePass EXCEPT !.pc = IF skip_execution(rc[RESET_IN_PROGRESS])
                                              THEN "skipped" ELSE "current_time",
                                       !.before = Stores(rc, ddb),
                                       !.other_at_start = OtherPhase(p),
                                       !.nth = NextPlace(p),
                                       !.after_pass =
                                           IF passes[p].pc = "done" /\ ~passes[p].direct.called
                                           THEN [complete |-> TRUE,
                                                 current_time |-> passes[p].current_time,
                                                 credited |-> passes[p].events # <<>>]
                                           ELSE NoPass]]
    /\ UNCHANGED <<rc, ddb, now, environ, resetting>>

\* current_time = int(time())
read_current_time(p) ==
    /\ passes[p].pc = "current_time"
    /\ passes' = [passes EXCEPT ![p] =
                      [@ EXCEPT !.pc = "get_counters",
                                !.current_time = now,
                                !.time = <<now>>]]
    /\ UNCHANGED <<rc, ddb, now, environ, resetting>>

\* rc.get of the watermark; the two counters read after it are only printed
get_counters(p) ==
    /\ passes[p].pc = "get_counters"
    /\ passes' = [passes EXCEPT ![p] =
                      [@ EXCEPT !.pc = "query_serving_counter_items",
                                !.max_queue_position_expired =
                                    rc[MAX_QUEUE_POSITION_EXPIRED]]]
    /\ UNCHANGED <<rc, ddb, now, environ, resetting>>

\* the query of the issuance table; it raises when the table is not there
query_serving_counter_items(p) ==
    /\ passes[p].pc = "query_serving_counter_items"
    /\ LET q == passes[p]
           serving_counter_items ==
               query_serving_counter_gt(ddb[SERVING_COUNTER_ISSUEDAT_TABLE].items,
                                        q.max_queue_position_expired)
       IN  passes' = [passes EXCEPT ![p] =
               IF ~ddb[SERVING_COUNTER_ISSUEDAT_TABLE].exists
               THEN Finished(q, "aborted")
               ELSE IF serving_counter_items = <<>>
               THEN Finished(q, "done")
               ELSE [q EXCEPT !.pc = "query_queue_position",
                              !.serving_counter_items = serving_counter_items,
                              !.i = 1,
                              !.previous = q.max_queue_position_expired]]
    /\ UNCHANGED <<rc, ddb, now, environ, resetting>>

\* the query of the queue-position entry of item i and the two breaks
query_queue_position(p) ==
    /\ passes[p].pc = "query_queue_position"
    /\ LET q == passes[p]
           serving_counter_item == q.serving_counter_items[q.i]
           entries == ddb[QUEUE_POSITION_ENTRYTIME_TABLE].items
       IN  passes' = [passes EXCEPT ![p] =
               IF ~ddb[QUEUE_POSITION_ENTRYTIME_TABLE].exists
               THEN Finished(q, "aborted")
               ELSE IF serving_counter_item.serving_counter \notin DOMAIN entries
               THEN break_loop(q)
               ELSE IF q.current_time
                         - queue_time_of(
                               entries[serving_counter_item.serving_counter].entry_time,
                               serving_counter_item.issue_time)
                         < environ.QUEUE_POSITION_EXPIRY_PERIOD
               THEN break_loop(q)
               ELSE [q EXCEPT !.pc = "rc_set"]]
    /\ UNCHANGED <<rc, ddb, now, environ, resetting>>

\* rc.set(MAX_QUEUE_POSITION_EXPIRED, position), and what follows up to the
\* next store call: the call of incr_serving_counter or the end of the body
rc_set(p) ==
    /\ passes[p].pc = "rc_set"
    /\ LET q == passes[p]
           serving_counter_item == q.serving_counter_items[q.i]
           q1 == [q EXCEPT !.max_queue_position_expired =
                               serving_counter_item.serving_counter,
                           !.expired = Append(@, serving_counter_item.serving_counter)]
       IN  /\ rc' = [rc EXCEPT ![MAX_QUEUE_POSITION_EXPIRED] =
                                   serving_counter_item.serving_counter]
           /\ passes' = [passes EXCEPT ![p] =
                  IF credit_enabled(environ)
                  THEN incr_call(q1, serving_counter_item.queue_positions_served,
                                 serving_counter_item.serving_counter, q.previous)
                  ELSE NextItem(q1)]
    /\ UNCHANGED <<ddb, now, environ, resetting>>

\* cur_serving = int(rc.incrby(SERVING_COUNTER, increment_by))
rc_incrby(p) ==
    /\ passes[p].pc = "rc_incrby"
    /\ rc' = [rc EXCEPT ![SERVING_COUNTER] = @ + passes[p].increment_by]
    /\ passes' = [passes EXCEPT ![p] =
                      [@ EXCEPT !.pc = "item",
                                !.cur_serving = rc[SERVING_COUNTER] + passes[p].increment_by]]
    /\ UNCHANGED <<ddb, now, environ, resetting>>

\* the item is built: 'issue_time': int(time())
build_item(p) ==
    /\ passes[p].pc = "item"
    /\ passes' = [passes EXCEPT ![p] =
                      [@ EXCEPT !.pc = "ddb_put_item",
                                !.issue_time = now,
                                !.time = Append(@, now)]]
    /\ UNCHANGED <<rc, ddb, now, environ, resetting>>

\* put_item(Item=item), which raises when the table is not there
ddb_put_item(p) ==
    /\ passes[p].pc = "ddb_put_item"
    /\ IF ddb[SERVING_COUNTER_ISSUEDAT_TABLE].exists
       THEN /\ ddb' = [ddb EXCEPT ![SERVING_COUNTER_ISSUEDAT_TABLE].items =
                                     put_item(@, passes[p].cur_serving,
                                              [issue_time |-> passes[p].issue_time,
                                               queue_positions_served |-> 0])]
            /\ passes' = [passes EXCEPT ![p] = [@ EXCEPT !.pc = "put_events"]]
       ELSE /\ ddb' = ddb
            /\ passes' = [passes EXCEPT ![p] = Finished(@, "aborted")]
    /\ UNCHANGED <<rc, now, environ, resetting>>

\* events_client.put_events, and the end of the loop body
put_events(p) ==
    /\ passes[p].pc = "put_events"
    /\ LET q == passes[p]
       IN  passes' = [passes EXCEPT ![p] =
               NextItem([q EXCEPT !.events =
                             Append(@, event_detail(q.cur_serving, q.increment_by,
                                                    q.previous))])]
    /\ UNCHANGED <<rc, ddb, now, environ, resetting>>

\* the store call the invocation is about to make raises: the handler has no
\* try, so the invocation ends there. A reading of the clock does not raise.
store_failure(p) ==
    /\ Running(passes[p])
    /\ passes[p].pc \notin {"current_time", "item"}
    /\ passes' = [passes EXCEPT ![p] = Finished(@, "aborted")]
    /\ UNCHANGED <<rc, ddb, now, environ, resetting>>

\* rc.get(RESET_IN_PROGRESS) of an invocation that begins raises: the
\* invocation ends having read nothing
get_reset_in_progress_failure(p) ==
    /\ ~Running(passes[p])
    /\ passes' = [passes EXCEPT ![p] =
                      [IdlePass EXCEPT !.pc = "aborted",
                                       !.before = Stores(rc, ddb),
                                       !.other_at_start = OtherPhase(p),
                                       !.nth = NextPlace(p)]]
    /\ UNCHANGED <<rc, ddb, now, environ, resetting>>

\* the next call of invocation p
pass_step(p) ==
    \/ get_reset_in_progress(p)
    \/ read_current_time(p)
    \/ get_counters(p)
    \/ query_serving_counter_items(p)
    \/ query_queue_position(p)
    \/ rc_set(p)
    \/ rc_incrby(p)
    \/ build_item(p)
    \/ ddb_put_item(p)
    \/ put_events(p)

\* A call of incr_serving_counter on its own, with arguments of its caller's
\* types: the statements up to its first store call, which rc_incrby,
\* build_item, ddb_put_item and put_events then make. The serving counter is kept within
\* twice MaxServing.
call_incr_serving_counter(queue_positions_served, position, previous) ==
    /\ ~Running(passes[1])
    /\ rc[SERVING_COUNTER] + (position - previous) <= MaxServing + MaxServing
    /\ passes' = [passes EXCEPT ![1] =
                      incr_call([IdlePass EXCEPT
                                     !.before = Stores(rc, ddb),
                                     !.previous = previous,
                                     !.direct = [called |-> TRUE,
                                                 queue_positions_served |->
                                                     queue_positions_served,
                                                 position |-> position,
                                                 previous |-> previous]],
                                queue_positions_served, position, previous)]
    /\ UNCHANGED <<rc, ddb, now, environ, resetting>>

\* ------------------------------------------------------ reset_initial_state
\* vwr.common.sanitize.deep_clean on the identifiers of ClientEventIds, which
\* hold no markup for it to strip or escape
deep_clean(client_event_id) == client_event_id

\* (mutant) the identifier is not compared
reset_matches_any(client_event_id) == TRUE

\* EVENT_ID == client_event_id
reset_matches(client_event_id) == EVENT_ID = deep_clean(client_event_id)

\* the counters in the order the handler zeroes them
CountersInOrder ==
    <<SERVING_COUNTER, QUEUE_COUNTER, TOKEN_COUNTER, COMPLETED_SESSION_COUNTER,
      ABANDONED_SESSION_COUNTER, MAX_QUEUE_POSITION_EXPIRED>>

\* the tables in the order the handler rebuilds them, and the calls per table
TablesInOrder ==
    <<TOKEN_TABLE, QUEUE_POSITION_ENTRYTIME_TABLE, SERVING_COUNTER_ISSUEDAT_TABLE>>

TableOps ==
    <<"delete_table", "wait_table_not_exists", "create_table", "wait_table_exists",
      "update_continuous_backups">>

FirstTableStep == 1 + Len(CountersInOrder) + 1

ResetSteps == 1 + Len(CountersInOrder) + Len(TableOps) * Len(TablesInOrder) + 1

StepTable(k) == TablesInOrder[((k - FirstTableStep) \div Len(TableOps)) + 1]

StepOp(k) == TableOps[((k - FirstTableStep) % Len(TableOps)) + 1]

\* one DynamoDB control-plane call on table t: [ok, ddb]; a call that raises
\* (ResourceNotFound, ResourceInUse, waiter error) leaves the tables as they are
table_call(op, t, d) ==
    CASE op = "delete_table" ->
            IF d[t].exists
            THEN [ok |-> TRUE,
                  ddb |-> [d EXCEPT ![t] = [exists |-> FALSE, pitr |-> FALSE,
                                           items |-> EmptyItems]]]
            ELSE [ok |-> FALSE, ddb |-> d]
      [] op = "wait_table_not_exists" -> [ok |-> ~d[t].exists, ddb |-> d]
      [] op = "create_table" ->
            IF d[t].exists
            THEN [ok |-> FALSE, ddb |-> d]
            ELSE [ok |-> TRUE,
                  ddb |-> [d EXCEPT ![t] = [exists |-> TRUE, pitr |-> FALSE,
                                           items |-> EmptyItems]]]
      [] op = "wait_table_exists" -> [ok |-> d[t].exists, ddb |-> d]
      [] op = "update_continuous_backups" ->
            IF d[t].exists
            THEN [ok |-> TRUE, ddb |-> [d EXCEPT ![t].pitr = TRUE]]
            ELSE [ok |-> FALSE, ddb |-> d]

\* (mutant) the counters are zeroed first and reset_in_progress is set after
reset_step_zeroes_first(k, s) ==
    IF k < FirstTableStep - 1
    THEN [ok |-> TRUE, rc |-> [s.rc EXCEPT ![CountersInOrder[k]] = 0], ddb |-> s.ddb]
    ELSE IF k = FirstTableStep - 1
    THEN [ok |-> TRUE, rc |-> [s.rc EXCEPT ![RESET_IN_PROGRESS] = 1], ddb |-> s.ddb]
    ELSE IF k < ResetSteps
    THEN LET c == table_call(StepOp(k), StepTable(k), s.ddb)
         IN  [ok |-> c.ok, rc |-> s.rc, ddb |-> c.ddb]
    ELSE [ok |-> TRUE, rc |-> [s.rc EXCEPT ![RESET_IN_PROGRESS] = 0], ddb |-> s.ddb]

\* statement k of the matching branch on s = [rc, ddb]: [ok, rc, ddb]
reset_step(k, s) ==
    IF k = 1
    THEN [ok |-> TRUE, rc |-> [s.rc EXCEPT ![RESET_IN_PROGRESS] = 1], ddb |-> s.ddb]
    ELSE IF k < FirstTableStep
    THEN [ok |-> TRUE, rc |-> [s.rc EXCEPT ![CountersInOrder[k - 1]] = 0], ddb |-> s.ddb]
    ELSE IF k < ResetSteps
    THEN LET c == table_call(StepOp(k), StepTable(k), s.ddb)
         IN  [ok |-> c.ok, rc |-> s.rc, ddb |-> c.ddb]
    ELSE [ok |-> TRUE, rc |-> [s.rc EXCEPT ![RESET_IN_PROGRESS] = 0], ddb |-> s.ddb]

\* (mutant) a failure clears reset_in_progress on its way out
except_clause_clears_flag(r) == [r EXCEPT ![RESET_IN_PROGRESS] = 0]

\* except Exception: print and raise again; the counters stay as they are
except_clause(r) == r

\* No invocation of the reset. k is the statement it executes next
\* (ResetSteps + 1 once it has returned); raised: it was left by an exception
\* at statement k; injected: of a store call that was made to fail;
\* statusCode of the response, 0 while there is none; retry: it was invoked
\* while reset_in_progress was set.
IdleReset ==
    [k |-> 0, raised |-> FALSE, injected |-> FALSE, statusCode |-> 0,
     client_event_id |-> "", retry |-> FALSE]

ResetRunning == resetting.k \in 1..ResetSteps /\ ~resetting.raised

\* reset_initial_state.lambda_handler is invoked: the comparison of the
\* identifier, and the 400 response when it does not match
reset_invoke(client_event_id) ==
    /\ ~ResetRunning
    /\ IF reset_matches(client_event_id)
       THEN /\ resetting' = [IdleReset EXCEPT !.k = 1,
                                              !.client_event_id = client_event_id,
                                              !.retry = rc[RESET_IN_PROGRESS] # 0]
            /\ passes' = [p \in Invocations |-> Forget(passes[p])]
       ELSE /\ resetting' = [IdleReset EXCEPT !.statusCode = 400,
                                              !.client_event_id = client_event_id]
            /\ passes' = passes
    /\ UNCHANGED <<rc, ddb, now, environ>>

\* the reset executes its next statement; a table call that raises takes it
\* through the except clause
reset_statement ==
    /\ ResetRunning
    /\ \E n \in {reset_step(resetting.k, Stores(rc, ddb))} :
           IF n.ok
           THEN /\ rc' = n.rc
                /\ ddb' = n.ddb
                /\ resetting' =
                       IF resetting.k = ResetSteps
                       THEN [resetting EXCEPT !.k = @ + 1, !.statusCode = 200]
                       ELSE [resetting EXCEPT !.k = @ + 1]
           ELSE /\ rc' = except_clause(rc)
                /\ ddb' = ddb
                /\ resetting' = [resetting EXCEPT !.raised = TRUE]
    /\ UNCHANGED <<now, environ, passes>>

\* the store call the reset is about to make raises: the getsets of lines
\* 49-58 are outside the try, the calls after them inside
reset_failure ==
    /\ ResetRunning
    /\ rc' = IF resetting.k >= FirstTableStep THEN except_clause(rc) ELSE rc
    /\ resetting' = [resetting EXCEPT !.raised = TRUE, !.injected = TRUE]
    /\ UNCHANGED <<ddb, now, environ, passes>>

\* ------------------------------------------------- the rest of the core API
\* The clock advances
Tick ==
    /\ now < MaxTime
    /\ now' = now + 1
    /\ UNCHANGED <<rc, ddb, environ, passes, resetting>>

\* a write of another actor: what the invocations that have ended did is
\* no longer what the stores show
OtherActorWrites ==
    /\ passes' = [p \in Invocations |-> Forget(passes[p])]
    /\ resetting' = IF ResetRunning THEN resetting ELSE IdleReset

\* The public API is followed while no reset is in progress: a reset that
\* completes leaves nothing of what it did in between.
\* A client is handed the next queue position
assign_queue_num ==
    /\ rc[RESET_IN_PROGRESS] = 0
    /\ rc[QUEUE_COUNTER] < MaxQueue
    /\ rc' = [rc EXCEPT ![QUEUE_COUNTER] = @ + 1]
    /\ OtherActorWrites
    /\ UNCHANGED <<ddb, now, environ>>

\* The queue-position entry of an issued position is written, once
store_queue_position(p) ==
    /\ rc[RESET_IN_PROGRESS] = 0
    /\ ddb[QUEUE_POSITION_ENTRYTIME_TABLE].exists
    /\ p \in 1..rc[QUEUE_COUNTER]
    /\ p \notin DOMAIN ddb[QUEUE_POSITION_ENTRYTIME_TABLE].items
    /\ ddb' = [ddb EXCEPT ![QUEUE_POSITION_ENTRYTIME_TABLE].items =
                              put_item(@, p, [entry_time |-> now])]
    /\ OtherActorWrites
    /\ UNCHANGED <<rc, now, environ>>

\* The public API advances the serving counter by n and records the issuance;
\* served of the n positions are accounted as served
increment_serving_counter(n, served) ==
    /\ rc[RESET_IN_PROGRESS] = 0
    /\ ddb[SERVING_COUNTER_ISSUEDAT_TABLE].exists
    /\ rc[SERVING_COUNTER] + n <= MaxServing
    /\ rc' = [rc EXCEPT ![SERVING_COUNTER] = @ + n]
    /\ ddb' = [ddb EXCEPT ![SERVING_COUNTER_ISSUEDAT_TABLE].items =
                              put_item(@, rc[SERVING_COUNTER] + n,
                                       [issue_time |-> now,
                                        queue_positions_served |-> served])]
    /\ OtherActorWrites
    /\ UNCHANGED <<now, environ>>

\* A token is generated; a session completes or is abandoned
generate_token ==
    /\ rc[RESET_IN_PROGRESS] = 0
    /\ rc[TOKEN_COUNTER] = 0
    /\ rc' = [rc EXCEPT ![TOKEN_COUNTER] = @ + 1]
    /\ OtherActorWrites
    /\ UNCHANGED <<ddb, now, environ>>

update_session(counter) ==
    /\ rc[RESET_IN_PROGRESS] = 0
    /\ rc[COMPLETED_SESSION_COUNTER] + rc[ABANDONED_SESSION_COUNTER] < rc[TOKEN_COUNTER]
    /\ rc' = [rc EXCEPT ![counter] = @ + 1]
    /\ OtherActorWrites
    /\ UNCHANGED <<ddb, now, environ>>

\* ------------------------------------------------------------ specification
Init ==
    /\ rc = [k \in RedisKeys |-> 0]
    /\ ddb = [t \in TableNames |-> [exists |-> TRUE, pitr |-> TRUE, items |-> EmptyItems]]
    /\ now = 0
    /\ environ \in [QUEUE_POSITION_EXPIRY_PERIOD : ExpiryPeriods,
                     INCR_SVC_ON_QUEUE_POS_EXPIRY : {"true", "false"}]
    /\ passes = [p \in Invocations |-> IdlePass]
    /\ resetting = IdleReset

\* no invocation of a handler is in flight
Idle == (\A p \in Invocations : ~Running(passes[p])) /\ ~ResetRunning

\* no invocation of a handler has begun since another actor last wrote
Quiet == (\A p \in Invocations : passes[p].pc = "idle") /\ resetting = IdleReset

\* The invocations of the scan follow one another, each running to its end,
\* between the calls of the public API that feed it; the clock advances at
\* any point, within an invocation too. No reset is invoked here: SpecReset
\* and SpecRace invoke it, and SpecOverlap and SpecIncr make store calls fail.
Next ==
    \/ Tick
    \/ Idle /\ assign_queue_num
    \/ \E p \in 1..MaxQueue : Idle /\ store_queue_position(p)
    \/ \E n \in 1..MaxServing, served \in 0..MaxServing :
           Idle /\ served <= n /\ increment_serving_counter(n, served)
    \/ pass_step(1)

Spec == Init /\ [][Next]_vars

\* The reset invoked with either identifier, any store call of which may
\* fail, and the scan invoked between the resets, over the counters and
\* tables the public API fills at one instant, the serving counter
\* advancing one position at a time
InitReset ==
    /\ Init
    /\ environ = [QUEUE_POSITION_EXPIRY_PERIOD |-> 0, INCR_SVC_ON_QUEUE_POS_EXPIRY |-> "true"]

NextReset ==
    \/ \E id \in ClientEventIds : ~Running(passes[1]) /\ reset_invoke(id)
    \/ reset_statement
    \/ reset_failure
    \/ ~ResetRunning /\ pass_step(1)
    \/ Idle /\ assign_queue_num
    \/ \E p \in 1..MaxQueue : Idle /\ store_queue_position(p)
    \/ Idle /\ increment_serving_counter(1, 0)
    \/ Idle /\ generate_token
    \/ \E c \in {COMPLETED_SESSION_COUNTER, ABANDONED_SESSION_COUNTER} :
           Idle /\ update_session(c)

SpecReset == InitReset /\ [][NextReset]_vars

\* incr_serving_counter called with any arguments within the bounds, any
\* store call of which may fail, on the counters and the issuance log the
\* public API builds, all at one instant: the clock reaches a call only
\* through the issue_time of its item, which Spec and SpecOverlap vary
NextIncr ==
    \/ \E queue_positions_served \in 0..MaxPosition,
          position \in 0..MaxPosition, previous \in 0..MaxPosition :
           call_incr_serving_counter(queue_positions_served, position, previous)
    \/ rc_incrby(1)
    \/ build_item(1)
    \/ ddb_put_item(1)
    \/ put_events(1)
    \/ store_failure(1)
    \/ \E n \in 1..MaxServing, served \in 0..MaxServing :
           Idle /\ served <= n /\ increment_serving_counter(n, served)

SpecIncr == InitReset /\ [][NextIncr]_vars

\* an invocation may begin: the other has not begun, or fewer than
\* MaxInvoked have begun since it first did
MayBegin(p) == NextPlace(p) <= MaxInvoked

\* Invocations of the scan, two of which may be in flight together, their
\* calls interleaving and any store call failing, while the clock advances
\* at any point, between the calls of the public API
NextOverlap ==
    \/ Tick
    \/ Idle /\ assign_queue_num
    \/ \E p \in 1..MaxQueue : Idle /\ store_queue_position(p)
    \/ \E n \in 1..MaxServing, served \in 0..MaxServing :
           Idle /\ served <= n /\ increment_serving_counter(n, served)
    \/ \E p \in Invocations :
           (Running(passes[p]) \/ MayBegin(p)) /\ pass_step(p)
    \/ \E p \in Invocations : MayBegin(p) /\ get_reset_in_progress_failure(p)
    \/ \E p \in Invocations : store_failure(p)

SpecOverlap == Init /\ [][NextOverlap]_vars

\* invocations of the scan and a reset whose store calls interleave, while
\* the clock advances at any point, between the calls of the public API
NextRace ==
    \/ Tick
    \/ Idle /\ assign_queue_num
    \/ \E p \in 1..MaxQueue : Idle /\ store_queue_position(p)
    \/ \E n \in 1..MaxServing, served \in 0..MaxServing :
           Idle /\ served <= n /\ increment_serving_counter(n, served)
    \/ pass_step(1)
    \/ resetting = IdleReset /\ reset_invoke(EVENT_ID)
    \/ reset_statement

SpecRace == Init /\ [][NextRace]_vars

\* ------------------------------------------------------------------ claims
\* q is the record of an invocation of the scan handler
ScanBegan(q) == q.pc # "idle" /\ ~q.direct.called

\* the invocation ran to the end of its loop
Complete(q) == q.pc = "done" /\ ~q.direct.called

\* the invocation has read the clock
TimeRead(q) == ScanBegan(q) /\ q.time # <<>>

\* what the invocation found: the issuance items, the queue-position
\* entries, the watermark, and the candidates of its query
BeforeIssued(q) == q.before.ddb[SERVING_COUNTER_ISSUEDAT_TABLE].items

BeforeEntries(q) == q.before.ddb[QUEUE_POSITION_ENTRYTIME_TABLE].items

BeforeWatermark(q) == q.before.rc[MAX_QUEUE_POSITION_EXPIRED]

Candidates(q) == {k \in DOMAIN BeforeIssued(q) : k > BeforeWatermark(q)}

ExpiredSet(q) == {q.expired[i] : i \in DOMAIN q.expired}

CreditedSet(q) == {q.credited[i] : i \in DOMAIN q.credited}

\* candidate k has its queue-position entry and is inside the grace period
InGrace(q, k) ==
    /\ k \in DOMAIN BeforeEntries(q)
    /\ q.current_time - (IF BeforeEntries(q)[k].entry_time >= BeforeIssued(q)[k].issue_time
                         THEN BeforeEntries(q)[k].entry_time
                         ELSE BeforeIssued(q)[k].issue_time)
           < environ.QUEUE_POSITION_EXPIRY_PERIOD

\* candidate k has its queue-position entry and is past the grace period
Eligible(q, k) == k \in DOMAIN BeforeEntries(q) /\ ~InGrace(q, k)

\* every candidate below k has its entry and is past the grace period
Reached(q, k) == \A j \in Candidates(q) : j < k => Eligible(q, j)

\* the invocation changed no store and emitted nothing
PassChangedNothing(q) ==
    /\ rc = q.before.rc
    /\ ddb = q.before.ddb
    /\ q.events = <<>>

\* An invocation that runs alone leaves, store call by store call, what the
\* handler run without interruption leaves with the same clock readings
ScanHandlerAgrees ==
    \A p \in Invocations :
        LET q == passes[p]
        IN  (ScanBegan(q) /\ ~Running(q) /\ q.pc # "aborted") =>
                LET h == scan_handler(q.before.rc, q.before.ddb,
                                      IF q.time = <<>> THEN <<now>> ELSE q.time,
                                      environ)
                IN  /\ h.skipped = (q.pc = "skipped")
                    /\ ~h.raised
                    /\ rc = h.lp.st.rc
                    /\ ddb[SERVING_COUNTER_ISSUEDAT_TABLE].items = h.lp.st.items
                    /\ q.events = h.lp.st.events
                    /\ q.expired = h.lp.expired

\* C1: where invocations of the scan follow one another, each running to its
\* end, and no reset is invoked, no step lowers max_queue_position_expired
\* and no step lowers serving_counter
C1_Monotonic ==
    [][/\ rc'[MAX_QUEUE_POSITION_EXPIRED] >= rc[MAX_QUEUE_POSITION_EXPIRED]
       /\ rc'[SERVING_COUNTER] >= rc[SERVING_COUNTER]]_vars

\* an invocation expired two candidates and credited the serving counter
C1_Witness ==
    \E p \in Invocations :
        /\ Complete(passes[p])
        /\ Len(passes[p].expired) >= 2
        /\ rc[SERVING_COUNTER] > passes[p].before.rc[SERVING_COUNTER]
        /\ rc[MAX_QUEUE_POSITION_EXPIRED] > passes[p].before.rc[MAX_QUEUE_POSITION_EXPIRED]

\* this step is rc.set(MAX_QUEUE_POSITION_EXPIRED, ...) of invocation p
WatermarkSetBy(p) == passes[p].pc = "rc_set" /\ passes'[p].pc # "rc_set"

\* C2: the value an invocation of the scan sets max_queue_position_expired
\* to is not greater than serving_counter at that moment
C2_WatermarkBound ==
    [][\A p \in Invocations :
           WatermarkSetBy(p) =>
               rc'[MAX_QUEUE_POSITION_EXPIRED] <= rc'[SERVING_COUNTER]]_vars

\* C3 as stated: an invocation that ran to its end after an invocation that
\* ran to its end, no other actor having written to a store in between,
\* changed nothing and emitted nothing
C3_IdempotentAsStated ==
    \A p \in Invocations :
        (Complete(passes[p]) /\ passes[p].after_pass.complete) =>
            PassChangedNothing(passes[p])

\* C3 amended: an invocation that ran to its end after an invocation that
\* ran to its end, no other actor having written to a store in between, the
\* clock reading of the second being that of the first and the expiry period
\* being positive, changed nothing and emitted nothing
C3_IdempotentSameInstant ==
    \A p \in Invocations :
        (/\ Complete(passes[p])
         /\ passes[p].after_pass.complete
         /\ passes[p].current_time = passes[p].after_pass.current_time
         /\ environ.QUEUE_POSITION_EXPIRY_PERIOD > 0) =>
            PassChangedNothing(passes[p])

\* an invocation followed, at the same clock reading, one that credited and
\* appended an issuance, and found an issuance above the watermark with its
\* queue-position entry
C3_Witness ==
    \E p \in Invocations :
        /\ Complete(passes[p])
        /\ passes[p].after_pass.credited
        /\ passes[p].current_time = passes[p].after_pass.current_time
        /\ environ.QUEUE_POSITION_EXPIRY_PERIOD > 0
        /\ \E k \in Candidates(passes[p]) : k \in DOMAIN BeforeEntries(passes[p])

\* C4: a candidate inside its grace period is not made the watermark, and no
\* candidate from it on is expired or credited by the invocation
C4_GraceRespected ==
    \A p \in Invocations :
        TimeRead(passes[p]) =>
            \A k \in Candidates(passes[p]) :
                InGrace(passes[p], k) =>
                    /\ rc[MAX_QUEUE_POSITION_EXPIRED] < k
                    /\ \A e \in ExpiredSet(passes[p]) \cup CreditedSet(passes[p]) : e < k

\* the invocation stopped at a candidate inside its grace period although a
\* later candidate was past it
C4_Witness ==
    \E p \in Invocations :
        /\ Complete(passes[p])
        /\ \E k, j \in Candidates(passes[p]) :
               /\ InGrace(passes[p], k)
               /\ Reached(passes[p], k)
               /\ j > k
               /\ Eligible(passes[p], j)

\* C5: a candidate without queue-position entry stops the scan: nothing from
\* it on is expired or credited, and the watermark is the last candidate
\* expired before it, or the starting value when there is none
C5_GapSafety ==
    \A p \in Invocations :
        ScanBegan(passes[p]) =>
            \A k \in Candidates(passes[p]) :
                k \notin DOMAIN BeforeEntries(passes[p]) =>
                    /\ \A e \in ExpiredSet(passes[p]) \cup CreditedSet(passes[p]) : e < k
                    /\ rc[MAX_QUEUE_POSITION_EXPIRED] =
                           IF passes[p].expired = <<>>
                           THEN BeforeWatermark(passes[p])
                           ELSE passes[p].expired[Len(passes[p].expired)]
                    /\ rc[MAX_QUEUE_POSITION_EXPIRED] < k
                    /\ (\A j \in Candidates(passes[p]) : k <= j) =>
                           PassChangedNothing(passes[p])

\* the invocation stopped at a candidate without entry although a later
\* candidate had its entry and was past the grace period
C5_Witness ==
    \E p \in Invocations :
        /\ Complete(passes[p])
        /\ \E k, j \in Candidates(passes[p]) :
               /\ k \notin DOMAIN BeforeEntries(passes[p])
               /\ Reached(passes[p], k)
               /\ j > k
               /\ Eligible(passes[p], j)

\* the increment of a call of incr_serving_counter with the arguments c
IncrementOf(c) == (c.position - c.previous) - c.queue_positions_served

\* C6: a call of incr_serving_counter whose increment is <= 0 returns
\* without a store call: it changes no store and emits nothing; and no call
\* lowers serving_counter
C6_NoNonPositiveIncrement ==
    \A p \in Invocations :
        passes[p].direct.called =>
            /\ IncrementOf(passes[p].direct) <= 0 =>
                   /\ passes[p].pc = "done"
                   /\ PassChangedNothing(passes[p])
            /\ rc[SERVING_COUNTER] >= passes[p].before.rc[SERVING_COUNTER]

\* incr_serving_counter was called with a negative increment on a serving
\* counter above 0 and a log that holds an issuance
C6_Witness ==
    \E p \in Invocations :
        /\ passes[p].direct.called
        /\ IncrementOf(passes[p].direct) < 0
        /\ passes[p].pc = "done"
        /\ passes[p].before.rc[SERVING_COUNTER] > 0
        /\ DOMAIN BeforeIssued(passes[p]) # {}

\* C7: an invocation that starts while reset_in_progress is set returns at
\* once: it changes no store, expires and credits nothing, and emits nothing
C7_ResetFreezes ==
    \A p \in Invocations :
        (ScanBegan(passes[p]) /\ passes[p].before.rc[RESET_IN_PROGRESS] # 0) =>
            /\ passes[p].pc = "skipped"
            /\ PassChangedNothing(passes[p])
            /\ passes[p].expired = <<>>
            /\ passes[p].credited = <<>>

\* an invocation skipped for a reset while a candidate had its entry and was
\* past its grace period
C7_Witness ==
    \E p \in Invocations :
        /\ ScanBegan(passes[p])
        /\ passes[p].before.rc[RESET_IN_PROGRESS] # 0
        /\ passes[p].pc = "skipped"
        /\ \E k \in Candidates(passes[p]) :
               /\ k \in DOMAIN BeforeEntries(passes[p])
               /\ now - Max2(BeforeEntries(passes[p])[k].entry_time,
                             BeforeIssued(passes[p])[k].issue_time)
                      >= environ.QUEUE_POSITION_EXPIRY_PERIOD

\* C8: a reset invoked with an identifier other than EVENT_ID answers 400,
\* executes no statement of the matching branch, and leaves the counters, the
\* flag and the tables as they were
C8_MismatchRejected ==
    [][(resetting' # resetting /\ resetting'.client_event_id \notin {EVENT_ID, ""}) =>
          /\ resetting'.statusCode = 400
          /\ resetting'.k = 0
          /\ ~resetting'.raised
          /\ rc' = rc
          /\ ddb' = ddb]_vars

\* a reset with another identifier was rejected while counters were above 0
\* and the tables of the scan held items
C8_Witness ==
    /\ resetting.client_event_id \notin {EVENT_ID, ""}
    /\ resetting.statusCode = 400
    /\ rc[SERVING_COUNTER] > 0
    /\ rc[QUEUE_COUNTER] > 0
    /\ rc[TOKEN_COUNTER] > 0
    /\ rc[MAX_QUEUE_POSITION_EXPIRED] > 0
    /\ rc[COMPLETED_SESSION_COUNTER] + rc[ABANDONED_SESSION_COUNTER] > 0
    /\ DOMAIN ddb[SERVING_COUNTER_ISSUEDAT_TABLE].items # {}
    /\ DOMAIN ddb[QUEUE_POSITION_ENTRYTIME_TABLE].items # {}

\* the table as create_table and update_continuous_backups leave it
RebuiltTable == [exists |-> TRUE, pitr |-> TRUE, items |-> EmptyItems]

\* the reset has executed rc.getset(RESET_IN_PROGRESS, 1) and not returned
FlagSetByReset == ResetRunning /\ resetting.k >= 2

\* C9: once a reset with the matching identifier has set reset_in_progress,
\* a store call of it that fails (made to fail, or a table call that raises
\* by itself) leaves reset_in_progress 1 and no response; and the reset sets
\* it back to 0 only with its last statement, the three tables rebuilt, and
\* answers 200
C9_FlagClearedOnlyOnSuccess ==
    [][/\ (FlagSetByReset /\ resetting'.raised) =>
              /\ rc'[RESET_IN_PROGRESS] = 1
              /\ resetting'.statusCode = 0
       /\ (FlagSetByReset /\ rc'[RESET_IN_PROGRESS] = 0) =>
              /\ resetting.k = ResetSteps
              /\ ~resetting'.raised
              /\ resetting'.statusCode = 200
              /\ \A t \in TableNames : ddb'[t] = RebuiltTable]_vars

\* a reset failed after deleting a table: it raised, the flag is 1 and the
\* table is gone
C9_Witness ==
    /\ resetting.client_event_id = EVENT_ID
    /\ resetting.k > FirstTableStep
    /\ resetting.raised
    /\ rc[RESET_IN_PROGRESS] = 1
    /\ \E t \in TableNames : ~ddb[t].exists

\* C10: a call of incr_serving_counter by the scan with increment > 0 adds
\* exactly the increment to serving_counter, giving cur; appends the one
\* issuance {serving_counter: cur, issue_time: the clock as read when the
\* item is built, queue_positions_served: 0}; and emits the one notification
\* {cur - increment, increment, cur}
C10_AdvancementEffect ==
    [][\A p \in Invocations :
           LET q == passes[p]
               items == ddb[SERVING_COUNTER_ISSUEDAT_TABLE].items
           IN  /\ (q.pc = "rc_incrby" /\ passes'[p].pc = "item") =>
                      /\ q.increment_by > 0
                      /\ q.increment_by =
                             (q.serving_counter_items[q.i].serving_counter - q.previous)
                                 - q.serving_counter_items[q.i].queue_positions_served
                      /\ rc' = [rc EXCEPT ![SERVING_COUNTER] = @ + q.increment_by]
                      /\ passes'[p].cur_serving = rc'[SERVING_COUNTER]
                      /\ ddb' = ddb
                      /\ passes'[p].events = q.events
               /\ (q.pc = "item" /\ passes'[p].pc = "ddb_put_item") =>
                      /\ passes'[p].issue_time = now
                      /\ rc' = rc
                      /\ ddb' = ddb
                      /\ passes'[p].events = q.events
               /\ (q.pc = "ddb_put_item" /\ passes'[p].pc = "put_events") =>
                      /\ q.cur_serving = rc[SERVING_COUNTER]
                      /\ q.cur_serving \notin DOMAIN items
                      /\ ddb' = [ddb EXCEPT ![SERVING_COUNTER_ISSUEDAT_TABLE].items =
                                    [k \in DOMAIN items \cup {q.cur_serving} |->
                                        IF k = q.cur_serving
                                        THEN [issue_time |-> q.issue_time,
                                              queue_positions_served |-> 0]
                                        ELSE items[k]]]
                      /\ rc' = rc
                      /\ passes'[p].events = q.events
               /\ (q.pc = "put_events" /\ passes'[p].pc # "put_events") =>
                      /\ passes'[p].events =
                             Append(q.events,
                                    [previous_serving_counter_position |->
                                         rc[SERVING_COUNTER] - q.increment_by,
                                     increment_by |-> q.increment_by,
                                     current_serving_counter_position |->
                                         rc[SERVING_COUNTER]])
                      /\ rc' = rc
                      /\ ddb' = ddb]_vars

\* an invocation expired one candidate and credited an increment of 2 or
\* more to a serving counter that was not at the previous position of the
\* call, the clock having advanced since the invocation read it
C10_Witness ==
    \E p \in Invocations :
        /\ Complete(passes[p])
        /\ Len(passes[p].expired) = 1
        /\ Len(passes[p].events) = 1
        /\ passes[p].events[1].increment_by >= 2
        /\ passes[p].events[1].previous_serving_counter_position
               # BeforeWatermark(passes[p])
        /\ ddb[SERVING_COUNTER_ISSUEDAT_TABLE].items[
               passes[p].events[1].current_serving_counter_position].issue_time
               > passes[p].current_time

\* the clock readings of an invocation
ReadingsOf(q) == {q.time[i] : i \in DOMAIN q.time}

\* the clock stood still over the two invocations: no two of their readings
\* differ
SameClock(p, o) == Cardinality(ReadingsOf(passes[p]) \cup ReadingsOf(passes[o])) <= 1

\* the counters and the issuance log as one uninterrupted invocation of the
\* handler leaves them, run on the stores invocation p found with the clock
\* reading of invocation o
SinglePass(p, o) ==
    scan_handler(passes[p].before.rc, passes[p].before.ddb,
                 <<passes[o].current_time>>, environ).lp.st

\* invocation o was ended by a failing store call, having run alone, and
\* invocation p was the next to begin, after that, and ran to its end
Retried(o, p) ==
    /\ ScanBegan(passes[o])
    /\ passes[o].pc = "aborted"
    /\ passes[o].other_at_start # "running"
    /\ Complete(passes[p])
    /\ passes[p].nth = passes[o].nth + 1
    /\ passes[p].other_at_start = "aborted"

\* C11: when an invocation was ended by a failing store call and the next
\* invocation began after that and ran to its end, the clock standing still,
\* max_queue_position_expired, serving_counter and the issuance log are as
\* one uninterrupted invocation would have left them
C11_Resumable ==
    \A p, o \in Invocations :
        (Retried(o, p) /\ SameClock(o, p)) =>
            /\ rc[MAX_QUEUE_POSITION_EXPIRED] = SinglePass(o, p).rc[MAX_QUEUE_POSITION_EXPIRED]
            /\ rc[SERVING_COUNTER] = SinglePass(o, p).rc[SERVING_COUNTER]
            /\ ddb[SERVING_COUNTER_ISSUEDAT_TABLE].items = SinglePass(o, p).items

\* C12: with crediting disabled an invocation changes
\* max_queue_position_expired and nothing else: every other counter, the
\* issuance log and the other tables are as it found them, it credits
\* nothing and emits no notification
C12_DisabledOnlyWatermark ==
    \A p \in Invocations :
        (ScanBegan(passes[p]) /\ environ.INCR_SVC_ON_QUEUE_POS_EXPIRY # "true") =>
            /\ \A k \in RedisKeys \ {MAX_QUEUE_POSITION_EXPIRED} :
                   rc[k] = passes[p].before.rc[k]
            /\ ddb = passes[p].before.ddb
            /\ passes[p].credited = <<>>
            /\ passes[p].events = <<>>

\* with crediting disabled an invocation expired a candidate whose positions
\* were not all served, so that crediting would have added to serving_counter
C12_Witness ==
    \E p \in Invocations :
        /\ Complete(passes[p])
        /\ environ.INCR_SVC_ON_QUEUE_POS_EXPIRY # "true"
        /\ rc[MAX_QUEUE_POSITION_EXPIRED] > BeforeWatermark(passes[p])
        /\ \E i \in DOMAIN passes[p].expired :
               (passes[p].expired[i] -
                   (IF i = 1 THEN BeforeWatermark(passes[p])
                    ELSE passes[p].expired[i - 1]))
                 > BeforeIssued(passes[p])[passes[p].expired[i]].queue_positions_served

\* the candidates of the invocation that are past the grace period together
\* with every candidate below them
EligiblePrefix(q) ==
    {k \in Candidates(q) : \A j \in Candidates(q) : j <= k => Eligible(q, j)}

\* C13: after an invocation that ran to its end max_queue_position_expired is
\* the largest candidate of the longest prefix of candidates that all have
\* their queue-position entry and are past the grace period; the watermark
\* the invocation started with when that prefix is empty
C13_ScanResult ==
    \A p \in Invocations :
        Complete(passes[p]) =>
            rc[MAX_QUEUE_POSITION_EXPIRED] =
                IF EligiblePrefix(passes[p]) = {}
                THEN BeforeWatermark(passes[p])
                ELSE CHOOSE k \in EligiblePrefix(passes[p]) :
                         \A j \in EligiblePrefix(passes[p]) : j <= k

\* an invocation expired the candidates of a prefix and stopped at a
\* candidate that had no queue-position entry or was inside its grace period
C13_Witness ==
    \E p \in Invocations :
        /\ Complete(passes[p])
        /\ EligiblePrefix(passes[p]) # {}
        /\ EligiblePrefix(passes[p]) # Candidates(passes[p])
        /\ rc[MAX_QUEUE_POSITION_EXPIRED] > BeforeWatermark(passes[p])

\* invocations p and o ran to their end, o having begun while p was in
\* flight and no other invocation having run since p began
Overlapped(p, o) ==
    /\ Complete(passes[p])
    /\ Complete(passes[o])
    /\ passes[p].other_at_start # "running"
    /\ passes[o].other_at_start = "running"
    /\ passes[o].nth = passes[p].nth + 1

\* C14: while two invocations interleave, no store call lowers
\* max_queue_position_expired, and when both have ended, the clock having
\* stood still, it is the value one invocation alone would have left
C14_OverlapWatermark ==
    [][/\ rc'[MAX_QUEUE_POSITION_EXPIRED] >= rc[MAX_QUEUE_POSITION_EXPIRED]
       /\ \A p, o \in Invocations :
              (Overlapped(p, o)' /\ SameClock(p, o)') =>
                  rc'[MAX_QUEUE_POSITION_EXPIRED] =
                      SinglePass(p, o)'.rc[MAX_QUEUE_POSITION_EXPIRED]]_vars

\* C15: when two invocations with crediting enabled have both expired the
\* same candidate and ended, the clock having stood still, serving_counter
\* has grown by what one invocation alone would have added
C15_NoDoubleCount ==
    \A p, o \in Invocations :
        (/\ Overlapped(p, o)
         /\ SameClock(p, o)
         /\ environ.INCR_SVC_ON_QUEUE_POS_EXPIRY = "true"
         /\ ExpiredSet(passes[p]) \cap ExpiredSet(passes[o]) # {}) =>
            rc[SERVING_COUNTER] - passes[p].before.rc[SERVING_COUNTER]
                = SinglePass(p, o).rc[SERVING_COUNTER] - passes[p].before.rc[SERVING_COUNTER]

\* this step is a write of invocation p to a store: the set of the
\* watermark, the increment of serving_counter or the append of the issuance
WriteBy(p) ==
    /\ passes[p].pc \in {"rc_set", "rc_incrby", "ddb_put_item"}
    /\ passes'[p].pc # passes[p].pc
    /\ passes'[p].pc # "aborted"

\* this step is the last statement of the reset, rc.set(RESET_IN_PROGRESS, 0)
ResetClearsFlag == resetting.k = ResetSteps /\ resetting'.k = ResetSteps + 1

\* C16: while a reset and an invocation of the scan interleave, the
\* invocation writes to a store only where reset_in_progress is 0, and the
\* six counters are 0 when the reset sets reset_in_progress back to 0
C16_ResetExcludesScan ==
    [][/\ \A p \in Invocations : WriteBy(p) => rc[RESET_IN_PROGRESS] = 0
       /\ ResetClearsFlag => \A c \in CounterKeys : rc'[c] = 0]_vars

\* C17: the append of the issuance by an invocation of the scan leaves every
\* issuance the log already holds as it was first written, the one with the
\* serving_counter value it appends included
C17_AppendOnly ==
    [][\A p \in Invocations :
           (passes[p].pc = "ddb_put_item" /\ passes'[p].pc = "put_events") =>
               \A k \in DOMAIN ddb[SERVING_COUNTER_ISSUEDAT_TABLE].items :
                   ddb'[SERVING_COUNTER_ISSUEDAT_TABLE].items[k] =
                       ddb[SERVING_COUNTER_ISSUEDAT_TABLE].items[k]]_vars

\* the statements of the reset that precede the rebuild of the i-th table
StatementsBefore(i) == 1 + Len(CountersInOrder) + Len(TableOps) * (i - 1)

\* the table as create_table leaves it
CreatedTable == [exists |-> TRUE, pitr |-> FALSE, items |-> EmptyItems]

\* this step is statement k of the reset, executed without raising
ResetStatementRuns(k) ==
    ResetRunning /\ resetting.k = k /\ resetting'.k = k + 1

\* C18: each statement of a reset with the matching identifier changes its
\* own target and nothing else, in this order: reset_in_progress is set to 1
\* with nothing zeroed or deleted yet; then the six counters are zeroed in
\* turn, the flag being 1 and the tables untouched; then, all six counters
\* being 0 and the flag 1, each table in turn, the tables before it rebuilt,
\* is deleted, found gone, recreated, found there, and given point-in-time
\* recovery; and reset_in_progress is set to 0 only then, the three tables
\* rebuilt
C18_ResetOrder ==
    [][/\ ResetStatementRuns(1) =>
              /\ rc' = [rc EXCEPT ![RESET_IN_PROGRESS] = 1]
              /\ ddb' = ddb
       /\ \A j \in 1..Len(CountersInOrder) :
              ResetStatementRuns(1 + j) =>
                  /\ rc[RESET_IN_PROGRESS] = 1
                  /\ \A h \in 1..(j - 1) : rc[CountersInOrder[h]] = 0
                  /\ rc' = [rc EXCEPT ![CountersInOrder[j]] = 0]
                  /\ ddb' = ddb
       /\ \A i \in 1..Len(TablesInOrder), n \in 1..Len(TableOps) :
              ResetStatementRuns(StatementsBefore(i) + n) =>
                  LET t == TablesInOrder[i]
                  IN  /\ rc[RESET_IN_PROGRESS] = 1
                      /\ \A c \in CounterKeys : rc[c] = 0
                      /\ rc' = rc
                      /\ \A h \in 1..(i - 1) : ddb[TablesInOrder[h]] = RebuiltTable
                      /\ \A u \in TableNames \ {t} : ddb'[u] = ddb[u]
                      /\ n = 1 => ddb[t].exists /\ ~ddb'[t].exists
                      /\ n = 2 => ~ddb[t].exists /\ ddb'[t] = ddb[t]
                      /\ n = 3 => ~ddb[t].exists /\ ddb'[t] = CreatedTable
                      /\ n = 4 => ddb[t] = CreatedTable /\ ddb'[t] = ddb[t]
                      /\ n = 5 => ddb[t] = CreatedTable /\ ddb'[t] = RebuiltTable
       /\ ResetStatementRuns(ResetSteps) =>
              /\ \A t \in TableNames : ddb[t] = RebuiltTable
              /\ \A c \in CounterKeys : rc[c] = 0
              /\ rc' = [rc EXCEPT ![RESET_IN_PROGRESS] = 0]
              /\ ddb' = ddb]_vars

\* a reset stopped between the recreation of the second table and its
\* point-in-time recovery: the first table is rebuilt, the third still holds
\* its items, the counters are 0 and reset_in_progress is 1
C18_Witness ==
    /\ resetting.client_event_id = EVENT_ID
    /\ resetting.raised
    /\ resetting.k = StatementsBefore(2) + 5
    /\ rc[RESET_IN_PROGRESS] = 1
    /\ \A c \in CounterKeys : rc[c] = 0
    /\ ddb[TOKEN_TABLE] = RebuiltTable
    /\ ddb[QUEUE_POSITION_ENTRYTIME_TABLE] = CreatedTable
    /\ DOMAIN ddb[SERVING_COUNTER_ISSUEDAT_TABLE].items # {}

\* C19: a reset with the matching identifier, invoked while
\* reset_in_progress is 1 from a failed attempt and none of whose store
\* calls is made to fail, does not raise
C19_RetryRecovers ==
    (resetting.retry /\ resetting.raised) => resetting.injected

\* what the invocation added to serving_counter and to the watermark
CreditOf(q) == rc[SERVING_COUNTER] - q.before.rc[SERVING_COUNTER]

AdvanceOf(q) == rc[MAX_QUEUE_POSITION_EXPIRED] - BeforeWatermark(q)

\* C20: an invocation that ran to its end with crediting enabled, over
\* issuances whose queue_positions_served are all >= 0, added to
\* serving_counter at most what it added to the watermark, and nothing when
\* it expired no candidate
C20_CreditBounded ==
    \A p \in Invocations :
        (/\ Complete(passes[p])
         /\ environ.INCR_SVC_ON_QUEUE_POS_EXPIRY = "true"
         /\ \A k \in DOMAIN BeforeIssued(passes[p]) :
                BeforeIssued(passes[p])[k].queue_positions_served >= 0) =>
            /\ CreditOf(passes[p]) <= AdvanceOf(passes[p])
            /\ CreditOf(passes[p]) >= 0
            /\ passes[p].expired = <<>> => CreditOf(passes[p]) = 0

\* an invocation expired two candidates and credited less than the watermark
\* advanced, a position of one of them having been served
C20_Witness ==
    \E p \in Invocations :
        /\ Complete(passes[p])
        /\ environ.INCR_SVC_ON_QUEUE_POS_EXPIRY = "true"
        /\ Len(passes[p].expired) >= 2
        /\ CreditOf(passes[p]) > 0
        /\ CreditOf(passes[p]) < AdvanceOf(passes[p])

====
